---- MODULE Spec2Model ----
(***************************************************************************)
(* A model of tia's typed container and sheet classes                      *)
(* (src/tia/basemodels.py, src/tia/invoices.py, src/tia/balances.py).      *)
(*                                                                         *)
(* Python objects are modelled with their identity: `heap` maps an object  *)
(* id to the fields of an item, and a list holds references, so that an    *)
(* in-place mutation (TiaItemModel.update, Invoice.check) is seen through  *)
(* every reference to the object.  A caller passes either an object the    *)
(* container already holds, an item it has just constructed, or a value of *)
(* another type; the heap keeps the objects the container refers to.       *)
(*                                                                         *)
(* Numbers: money is an integer number of currency units, a vat is kept in *)
(* hundredths of a percent (4.0 % = 400, 99.99 % = 9999), and an amount    *)
(* that involves a tax is kept in 1/Scale currency units, so that          *)
(* subtotal * vat / 100 is exact.                                          *)
(*                                                                         *)
(* The backend (src/tia/backend.py) is modelled with the invoice a TIA has *)
(* opened, whose items are the list above, and the files of its invoice    *)
(* and cash accounting directories, each file being the JSON text that was *)
(* written to it.                                                          *)
(***************************************************************************)
EXTENDS Integers, Sequences, FiniteSets, TLC

VARIABLES kind, items, heap, config_vat, last, present,
          tia_invoice, invoice_dir, cash_acc_dir, company

\* The state of a TIA: the invoice it has opened (whose items are `items`),
\* and the files of its invoice and cash accounting directories.
tia == <<tia_invoice, invoice_dir, cash_acc_dir>>

vars == <<kind, items, heap, config_vat, last, present, tia, company>>

(***************************************************************************)
(* Bounds of the model.                                                    *)
(***************************************************************************)
MaxLen == 2

(***************************************************************************)
(* Program constants.                                                      *)
(***************************************************************************)
SENTINEL == 9999
VatLimit == 10000
Scale == 10000
year == 2021

\* Object ids: one per position of the list and one for the argument in flight.
ObjIds == 1 .. MaxLen + 1

(***************************************************************************)
(* Values a caller can pass: a reference to an object of the container, an *)
(* item constructed for the call (New), an int, a str.                     *)
(***************************************************************************)
Ref(id) == [t |-> "ref", id |-> id]
New(p) == [t |-> "new", p |-> p]
IntVal(n) == [t |-> "int", v |-> n]
StrVal(s) == [t |-> "str", s |-> s]

None == [cls |-> "None"]

InvoiceItem(service, qty, unit_price, vat, description) ==
    [cls |-> "InvoiceItem", service |-> service, qty |-> qty,
     unit_price |-> unit_price, vat |-> vat, description |-> description]

AccountingItem(description, value, currency, vat, date) ==
    [cls |-> "AccountingItem", description |-> description, value |-> value,
     currency |-> currency, vat |-> vat, date |-> date]

(***************************************************************************)
(* The items a caller constructs (all pass the field constraints), and the *)
(* values of another type a caller may pass, for each class of container.  *)
(***************************************************************************)
Protos ==
    [Invoice |-> << InvoiceItem("s", 1, 3, SENTINEL, ""),
                    InvoiceItem("s", 1, 3, 1000, "") >>,
     CashAccounting |-> << AccountingItem("a", 7, "EUR", 350, 2),
                           AccountingItem("b", -10, "EUR", 400, 1) >>,
     TypedList |-> << >>]

Prims ==
    [Invoice |-> {IntVal(1)},
     CashAccounting |-> {IntVal(1)},
     TypedList |-> {IntVal(1), IntVal(2), StrVal("invalid")}]

KindOf == [Invoice |-> "InvoiceItem", CashAccounting |-> "AccountingItem",
           TypedList |-> "int"]

\* TypedList.item_type: the type argument of the annotation of `items`.
item_type == KindOf[kind]

\* type(v)
TypeOf(h, v) == IF v.t = "ref" THEN h[v.id].cls ELSE v.t

\* isinstance(v, T)
IsInstance(h, v, T) == TypeOf(h, v) = T

\* The objects a list refers to.
Held(s) == {id \in ObjIds : \E k \in 1 .. Len(s) : s[k] = Ref(id)}

\* The values a caller passes: objects of the container, items constructed
\* for the call, and values of another type.
Args == {Ref(id) : id \in Held(items)}
          \cup {New(p) : p \in 1 .. Len(Protos[kind])} \cup Prims[kind]

\* The heap once the argument of a call exists: an item constructed for the
\* call is a new object.
FreeId(h) == CHOOSE id \in ObjIds : h[id] = None /\ \A j \in 1 .. id - 1 : h[j] # None
Pass(h, v) ==
    IF v.t = "new"
    THEN [heap |-> [h EXCEPT ![FreeId(h)] = Protos[kind][v.p]], v |-> Ref(FreeId(h))]
    ELSE [heap |-> h, v |-> v]

\* Object ids carry no meaning: after a call the objects the list refers to
\* are numbered by their first position in the list, and the others, which
\* only the caller may still hold, are dropped.
RECURSIVE Order(_, _, _)
Order(s, k, acc) ==
    IF k > Len(s) THEN acc
    ELSE IF s[k].t = "ref" /\ \A j \in 1 .. Len(acc) : acc[j] # s[k].id
         THEN Order(s, k + 1, Append(acc, s[k].id))
         ELSE Order(s, k + 1, acc)
KeepHeap(h, ord) ==
    [n \in ObjIds |-> IF n <= Len(ord) THEN h[ord[n]] ELSE None]
KeepItems(s, ord) ==
    [k \in 1 .. Len(s) |->
        IF s[k].t = "ref"
        THEN Ref(CHOOSE n \in 1 .. Len(ord) : ord[n] = s[k].id)
        ELSE s[k]]

NoExc == [exc |-> "", msg |-> <<>>]
Raise(e) == [exc |-> e, msg |-> <<>>]

\* pydantic BaseModel.__eq__ (dict equality) with list's identity shortcut.
Eq(h, a, b) ==
    IF a.t = "ref" /\ b.t = "ref"
    THEN a.id = b.id \/ h[a.id] = h[b.id]
    ELSE a = b

\* TypedList.check without the isinstance test.
TypedList_check_Unchecked(h, v) == NoExc

\* TypedList.check
TypedList_check(h, v) ==
    IF ~IsInstance(h, v, item_type)
    THEN [exc |-> "TypeError", msg |-> <<item_type, TypeOf(h, v)>>]
    ELSE NoExc

\* Invoice.check that only runs the type check and leaves the vat alone.
Invoice_check_Unresolved(h, v) == [r |-> TypedList_check(h, v), heap |-> h]

\* Invoice.check: the result of the type check and the heap after the
\* sentinel vat has been resolved in place.
Invoice_check(h, v) ==
    LET r == TypedList_check(h, v) IN
    IF r.exc # "" THEN [r |-> r, heap |-> h]
    ELSE IF v.t = "ref" /\ h[v.id].vat = SENTINEL
         THEN [r |-> r, heap |-> [h EXCEPT ![v.id].vat = config_vat]]
         ELSE [r |-> r, heap |-> h]

\* self.check(v), dispatched on the class of the container.
check(h, v) ==
    IF kind = "Invoice" THEN Invoice_check(h, v)
    ELSE [r |-> TypedList_check(h, v), heap |-> h]

\* list.insert(index, value), 0-based index from 0 to len(list).
ListInsert(s, i, v) == SubSeq(s, 1, i) \o <<v>> \o SubSeq(s, i + 1, Len(s))

\* del list[i], 0-based index in range.
ListDelete(s, i) == SubSeq(s, 1, i) \o SubSeq(s, i + 2, Len(s))

\* An index that answers a missing value with the last position (-1) instead
\* of raising.
IndexOf_LastWhenMissing(h, s, v) ==
    IF \E k \in 1 .. Len(s) : Eq(h, s[k], v)
    THEN CHOOSE k \in 1 .. Len(s) :
            /\ Eq(h, s[k], v)
            /\ \A j \in 1 .. k - 1 : ~Eq(h, s[j], v)
    ELSE Len(s)

\* 1-based position of the first element equal to v, 0 when there is none
\* (list.index / Sequence.index raise ValueError then).
IndexOf(h, s, v) ==
    IF \E k \in 1 .. Len(s) : Eq(h, s[k], v)
    THEN CHOOSE k \in 1 .. Len(s) :
            /\ Eq(h, s[k], v)
            /\ \A j \in 1 .. k - 1 : ~Eq(h, s[j], v)
    ELSE 0

(***************************************************************************)
(* Field mappings passed to edit_item; a dict keeps its insertion order.   *)
(***************************************************************************)
Dicts ==
    [Invoice |->
       << << [k |-> "qty", v |-> 2] >>,
          << [k |-> "vat", v |-> SENTINEL] >>,
          << [k |-> "vat", v |-> 10100] >>,
          << [k |-> "no_attr", v |-> 1] >>,
          << [k |-> "qty", v |-> 2], [k |-> "no_attr", v |-> 1] >>,
          << [k |-> "no_attr", v |-> 1], [k |-> "qty", v |-> 2] >>,
          << [k |-> "qty", v |-> 2], [k |-> "unit_price", v |-> -1] >>,
          << [k |-> "subtotal", v |-> 1] >> >>,
     CashAccounting |->
       << << [k |-> "value", v |-> 5] >>,
          << [k |-> "vat", v |-> -100] >>,
          << [k |-> "no_attr", v |-> 1] >>,
          << [k |-> "value", v |-> 5], [k |-> "no_attr", v |-> 1] >>,
          << [k |-> "no_attr", v |-> 1], [k |-> "value", v |-> 5] >>,
          << [k |-> "description", v |-> "b"], [k |-> "vat", v |-> 400] >>,
          << [k |-> "subtotal", v |-> 1] >>,
          << [k |-> "vat", v |-> 0] >> >>,
     TypedList |-> << >>]

Dict(n) == [t |-> "dict", n |-> n]

\* The declared fields of the item classes.
Fields ==
    [InvoiceItem |-> {"service", "qty", "unit_price", "vat", "description"},
     AccountingItem |-> {"description", "value", "currency", "vat", "date"}]

\* Names for which hasattr is true although they are no fields.
Properties == {"subtotal", "tax", "total", "values"}

\* Fields without constraints.
Valid_Unconstrained(cls, key, value) == TRUE

\* The constraints pydantic validates on construction and on assignment.
Valid(cls, key, value) ==
    IF key = "vat" THEN value >= 0 /\ value < VatLimit
    ELSE IF cls = "InvoiceItem" /\ key \in {"qty", "unit_price"} THEN value > 0
    ELSE TRUE

\* The constructor of an item class called with the fields of item: pydantic
\* validates every field.
construct(item) ==
    IF \A key \in Fields[item.cls] : Valid(item.cls, key, item[key])
    THEN NoExc
    ELSE Raise("ValidationError")

\* TiaItemModel.update, entries k .. Len(d) of the dictionary: the object
\* as it is when the loop ends or raises, and the exception.
RECURSIVE update(_, _, _)
update(obj, d, k) ==
    IF k > Len(d) THEN [obj |-> obj, r |-> NoExc]
    ELSE IF d[k].k \in Fields[obj.cls]
         THEN IF Valid(obj.cls, d[k].k, d[k].v)
              THEN update([obj EXCEPT ![d[k].k] = d[k].v], d, k + 1)
              ELSE [obj |-> obj, r |-> Raise("ValidationError")]
         ELSE IF d[k].k \in Properties
              THEN [obj |-> obj, r |-> Raise("ValueError")]
              ELSE [obj |-> obj, r |-> Raise("AttributeError")]

(***************************************************************************)
(* The derived amounts.  A subtotal is in currency units; a tax and a      *)
(* total are in 1/Scale currency units (subtotal * vat / 100 with the vat  *)
(* in hundredths of a percent is subtotal * vat / Scale).                  *)
(***************************************************************************)
\* The value behind a reference (what == compares), a literal as it is.
Content(h, v) == IF v.t = "ref" THEN h[v.id] ELSE v

\* The list as the values it holds.
Contents(h, s) == [k \in 1 .. Len(s) |-> Content(h, s[k])]

\* InvoiceItem.subtotal, AccountingItem.subtotal
subtotal(item) ==
    IF item.cls = "InvoiceItem" THEN item.qty * item.unit_price ELSE item.value

\* TiaItemModel.tax with the sign turned.
tax_Negated(item) == - subtotal(item) * item.vat

\* TiaItemModel.tax
tax(item) == subtotal(item) * item.vat

\* TiaItemModel.total
total(item) == subtotal(item) * Scale + tax(item)

\* sum(xs), from 0 and from the left
RECURSIVE sum(_)
sum(xs) ==
    IF Len(xs) = 0 THEN 0
    ELSE sum(SubSeq(xs, 1, Len(xs) - 1)) + xs[Len(xs)]

\* TiaSheetModel.subtotal
TiaSheetModel_subtotal(h, s) ==
    sum([k \in 1 .. Len(s) |-> subtotal(Content(h, s[k]))])

\* TiaSheetModel.tax with a range that stops one item short.
TiaSheetModel_tax_OneShort(h, s) ==
    sum([k \in 1 .. Len(s) - 1 |->
            subtotal(Content(h, s[k])) * Content(h, s[k]).vat])

\* TiaSheetModel.tax
TiaSheetModel_tax(h, s) ==
    sum([k \in 1 .. Len(s) |->
            subtotal(Content(h, s[k])) * Content(h, s[k]).vat])

\* TiaSheetModel.total
TiaSheetModel_total(h, s) ==
    TiaSheetModel_subtotal(h, s) * Scale + TiaSheetModel_tax(h, s)

\* The filters of the generator expressions.
SubtotalNonNegative(item) == subtotal(item) >= 0
SubtotalNegative(item) == subtotal(item) < 0
TaxNonNegative(item) == tax(item) >= 0
TaxNegative(item) == tax(item) < 0

\* [f(item) for item in items], for the three amounts
Subtotals(xs) == [k \in 1 .. Len(xs) |-> subtotal(xs[k])]
Taxes(xs) == [k \in 1 .. Len(xs) |-> tax(xs[k])]

\* CashAccounting.subtotals with the filter of the revenues copied to the
\* expenditures.
CashAccounting_subtotals_SameFilter(h, s) ==
    << sum(Subtotals(SelectSeq(Contents(h, s), SubtotalNonNegative))),
       sum(Subtotals(SelectSeq(Contents(h, s), SubtotalNonNegative))) >>

\* CashAccounting.subtotals: (revenues, expenditures)
CashAccounting_subtotals(h, s) ==
    << sum(Subtotals(SelectSeq(Contents(h, s), SubtotalNonNegative))),
       sum(Subtotals(SelectSeq(Contents(h, s), SubtotalNegative))) >>

\* CashAccounting.taxes: (revenues, expenditures)
CashAccounting_taxes(h, s) ==
    << sum(Taxes(SelectSeq(Contents(h, s), TaxNonNegative))),
       sum(Taxes(SelectSeq(Contents(h, s), TaxNegative))) >>

\* CashAccounting.totals: subtotal + tax for the zipped pairs
CashAccounting_totals(h, s) ==
    [i \in 1 .. 2 |->
        CashAccounting_subtotals(h, s)[i] * Scale + CashAccounting_taxes(h, s)[i]]

\* AccountingItem.__values__ with the expenditure columns left unnegated.
AccountingItem_values_Unnegated(item) ==
    IF subtotal(item) >= 0
    THEN << item.date, item.description,
            subtotal(item) * Scale, tax(item), subtotal(item) * Scale + tax(item),
            0, 0, 0, 0, tax(item) >>
    ELSE << item.date, item.description,
            0, 0, 0,
            subtotal(item) * Scale, tax(item), tax(item) + subtotal(item) * Scale,
            0, tax(item) >>

\* AccountingItem.__values__: the row of the table, amounts in 1/Scale units
AccountingItem_values(item) ==
    IF subtotal(item) >= 0
    THEN << item.date, item.description,
            subtotal(item) * Scale, tax(item), subtotal(item) * Scale + tax(item),
            0, 0, 0, 0, tax(item) >>
    ELSE << item.date, item.description,
            0, 0, 0,
            - subtotal(item) * Scale, - tax(item), - tax(item) - subtotal(item) * Scale,
            0, tax(item) >>

\* The right operand of a comparison: a plain list, another TypedList or a
\* value that is no sequence, with the values it holds.
Operand(t, xs) == [t |-> t, items |-> xs]

\* TypedList.__eq__(other): "NotImplemented" unless other is a list, "False"
\* on a length mismatch, else whether all elements are equal.
TypedList_eq(h, s, other) ==
    IF other.t # "list" THEN "NotImplemented"
    ELSE IF Len(s) # Len(other.items) THEN "False"
    ELSE IF \A i \in 1 .. Len(s) : Content(h, s[i]) = other.items[i]
         THEN "True" ELSE "False"

(***************************************************************************)
(* Strings that are looked into are sequences of one-character strings or  *)
(* of words that never overlap digits; str and int convert as Python's do  *)
(* for a natural number.                                                   *)
(***************************************************************************)
Digit == << "0", "1", "2", "3", "4", "5", "6", "7", "8", "9" >>

\* str(n)
RECURSIVE str(_)
str(n) ==
    IF n < 10 THEN << Digit[n + 1] >>
    ELSE str(n \div 10) \o << Digit[(n % 10) + 1] >>

\* int(s), for a string of digits
RECURSIVE int(_)
int(s) ==
    LET value(c) == CHOOSE d \in 0 .. 9 : Digit[d + 1] = c IN
    IF Len(s) = 1 THEN value(s[1])
    ELSE int(SubSeq(s, 1, Len(s) - 1)) * 10 + value(s[Len(s)])

\* A datetime.date
Date(ordinal) == [cls |-> "date", ordinal |-> ordinal]

\* InvoiceConfiguration.currency_symbol
currency_symbol == "EUR"

\* An Invoice apart from its items: the number and the day it was settled.
Invoice(invoicenumber, payed_on) ==
    [cls |-> "Invoice", invoicenumber |-> invoicenumber, payed_on |-> payed_on]

\* tax / subtotal * 100 in hundredths of a percent, kept as a fraction;
\* ZeroDivisionError when the subtotal is 0.
Ratio(num, den) == [num |-> num, den |-> den]

\* Invoice.ca_item of the invoice inv that holds the items s: what the
\* property raises and what it returns (value in 1/Scale units).
Invoice_ca_item(h, s, inv) ==
    IF inv.payed_on # None
    THEN IF TiaSheetModel_subtotal(h, s) = 0
         THEN [r |-> Raise("ZeroDivisionError"), value |-> None]
         ELSE IF /\ TiaSheetModel_tax(h, s) >= 0
                 /\ TiaSheetModel_tax(h, s) < VatLimit * TiaSheetModel_subtotal(h, s)
         THEN [r |-> NoExc,
               value |-> AccountingItem(<< "Invoice no. " >> \o inv.invoicenumber,
                                        TiaSheetModel_total(h, s),
                                        currency_symbol,
                                        Ratio(TiaSheetModel_tax(h, s),
                                              TiaSheetModel_subtotal(h, s)),
                                        inv.payed_on.ordinal)]
         ELSE [r |-> Raise("ValidationError"), value |-> None]
    ELSE [r |-> NoExc, value |-> None]

\* AccountingItem.__headers__: the column labels of a ledger's table
AccountingItem_headers ==
    << "Receipt No.", "Date", "Transaction",
       "Revenue(Net)", "Revenue(VAT)", "Revenue(Total)",
       "Expenditure(Net)", "Expenditure(VAT)", "Expenditure(Total)",
       "VAT Paid", "VAT Debt" >>

\* TiaItemModel._format_value of a value of type t: a string as it is, a
\* number that is not 0 followed by the currency and 0 as the empty string,
\* a date in short form.
format_value(item, t, value) ==
    IF t = "str" THEN [cell |-> "str", of |-> value]
    ELSE IF t = "number"
    THEN IF value # 0
         THEN [cell |-> "amount", of |-> value, currency |-> item.currency]
         ELSE [cell |-> "str", of |-> ""]
    ELSE [cell |-> "date", of |-> value]

\* TiaItemModel.__values_str__ of an AccountingItem: __values__ formatted
\* entry by entry (a date, the description, then numbers).
AccountingItem_values_str(item) ==
    [i \in DOMAIN AccountingItem_values(item) |->
        format_value(item,
                     IF i = 1 THEN "date" ELSE IF i = 2 THEN "str" ELSE "number",
                     AccountingItem_values(item)[i])]

\* TypedList.table of a CashAccounting: nothing for an empty list, else the
\* header row followed by one row per item.
CashAccounting_table(h, s) ==
    IF Len(s) = 0 THEN << >>
    ELSE << AccountingItem_headers >>
         \o [i \in 1 .. Len(s) |-> AccountingItem_values_str(Content(h, s[i]))]

\* sorted(items, key=attrgetter("date")) that puts an item before the items
\* of its date that came earlier.
RECURSIVE sorted_by_date_Unstable(_, _)
sorted_by_date_Unstable(h, s) ==
    IF Len(s) = 0 THEN << >>
    ELSE LET out == sorted_by_date_Unstable(h, SubSeq(s, 1, Len(s) - 1))
             x == s[Len(s)]
             k == Cardinality({j \in 1 .. Len(out) :
                                 Content(h, out[j]).date < Content(h, x).date})
         IN SubSeq(out, 1, k) \o << x >> \o SubSeq(out, k + 1, Len(out))

\* sorted(items, key=attrgetter("date")): ascending dates, and items of one
\* date in the order they had (the sort of Python is stable).
RECURSIVE sorted_by_date(_, _)
sorted_by_date(h, s) ==
    IF Len(s) = 0 THEN << >>
    ELSE LET out == sorted_by_date(h, SubSeq(s, 1, Len(s) - 1))
             x == s[Len(s)]
             k == Cardinality({j \in 1 .. Len(out) :
                                 Content(h, out[j]).date <= Content(h, x).date})
         IN SubSeq(out, 1, k) \o << x >> \o SubSeq(out, k + 1, Len(out))

\* The record of the last call: the method of the container that ran it
\* (insert for append and add_item, remove for delete_item), what it raised,
\* and, when it raised nothing, the value passed for insertion, or found for
\* removal, as it was when the call began.
Called(op, r, pre) ==
    [op |-> op, exc |-> r.exc, msg |-> r.msg,
     pre |-> IF r.exc = "" THEN pre ELSE None]

InitItems ==
    [Invoice |-> {<<>>, <<1>>, <<2>>},
     CashAccounting |-> {<<>>, <<1>>, <<2>>},
     TypedList |-> {<<>>}]

Init ==
    /\ kind \in {"Invoice", "CashAccounting", "TypedList"}
    /\ config_vat \in IF kind = "Invoice" THEN {400, SENTINEL} ELSE {0}
    /\ \E ps \in InitItems[kind] :
          /\ heap = [id \in ObjIds |->
                       IF id <= Len(ps) THEN Protos[kind][ps[id]] ELSE None]
          /\ items = [i \in 1 .. Len(ps) |-> Ref(i)]
    /\ present = Len(items)
    /\ last = Called("init", NoExc, None)
    /\ tia_invoice = None
    /\ invoice_dir = {}
    /\ cash_acc_dir = {}
    /\ company = [called |-> FALSE]

\* What a call leaves behind: the list s in the heap h (with the objects the
\* list no longer refers to dropped), n calls' worth of elements, and the
\* record l of the call.
Leave(h, s, n, l) ==
    LET ord == Order(s, 1, <<>>) IN
    [items |-> KeepItems(s, ord), heap |-> KeepHeap(h, ord),
     present |-> n, last |-> l]

\* The step in which the container becomes what the call left.
Do(res) ==
    /\ items' = res.items
    /\ heap' = res.heap
    /\ present' = res.present
    /\ last' = res.last
    /\ UNCHANGED <<kind, config_vat, tia, company>>

\* The caller assigns invoice.config.vat (validated on assignment).
SetConfigVat(x) ==
    /\ kind = "Invoice"
    /\ config_vat' = IF Valid("InvoiceConfiguration", "vat", x) THEN x ELSE config_vat
    /\ last' = Called("config.vat",
                      IF Valid("InvoiceConfiguration", "vat", x)
                      THEN NoExc ELSE Raise("ValidationError"), None)
    /\ UNCHANGED <<kind, items, heap, present, tia, company>>

\* TypedList.insert(index, value)
insert(index, value) ==
    LET a == Pass(heap, value)
        c == check(a.heap, a.v)
    IN
    Leave(c.heap,
          IF c.r.exc = "" THEN ListInsert(items, index, a.v) ELSE items,
          IF c.r.exc = "" THEN present + 1 ELSE present,
          Called("insert", c.r, Content(a.heap, a.v)))

\* MutableSequence.append(value): self.insert(len(self), value)
append(value) == insert(Len(items), value)

\* TypedList.__setitem__(index, value): the check, then the list assignment
\* (IndexError when the index is out of range).
setitem(index, value) ==
    LET a == Pass(heap, value)
        c == check(a.heap, a.v)
        r == IF c.r.exc # "" THEN c.r
             ELSE IF index >= Len(items) THEN Raise("IndexError") ELSE NoExc
    IN
    Leave(c.heap,
          IF r.exc = "" THEN [items EXCEPT ![index + 1] = a.v] ELSE items,
          present,
          Called("setitem", r, Content(a.heap, a.v)))

\* TypedList.__delitem__(idx), reached as op with r raised on the way.
delitem(op, r, idx) ==
    Leave(heap,
          IF r.exc = "" THEN ListDelete(items, idx) ELSE items,
          IF r.exc = "" THEN present - 1 ELSE present,
          Called(op, r, IF r.exc = "" THEN Content(heap, items[idx + 1]) ELSE None))

\* A remove that deletes every element equal to value.
remove_Every(value) ==
    LET a == Pass(heap, value)
        index == IndexOf(a.heap, items, a.v)
        Other(e) == ~Eq(a.heap, e, a.v)
    IN
    IF index = 0 THEN delitem("remove", Raise("ValueError"), -1)
    ELSE Leave(heap, SelectSeq(items, Other), present - 1,
               Called("remove", NoExc, Content(heap, items[index])))

\* MutableSequence.remove(value): del self[self.index(value)]
remove(value) ==
    LET a == Pass(heap, value)
        index == IndexOf(a.heap, items, a.v)
    IN
    delitem("remove", IF index = 0 THEN Raise("ValueError") ELSE NoExc, index - 1)

\* The body of TiaSheetModel.edit_item(old_item, new_item)
edit(old_item, new_item) ==
    LET o == Pass(heap, old_item)
        index == IndexOf(o.heap, items, o.v)
        a == Pass(heap, new_item)
    IN
    IF index = 0
    THEN Leave(heap, items, present, Called("edit_item", Raise("ValueError"), None))
    ELSE IF new_item.t # "dict" /\ IsInstance(a.heap, a.v, item_type)
    THEN LET c == check(a.heap, a.v) IN
         Leave(c.heap,
               IF c.r.exc = "" THEN [items EXCEPT ![index] = a.v] ELSE items,
               present,
               Called("edit_item", c.r, Content(a.heap, a.v)))
    ELSE IF new_item.t = "dict"
    THEN LET cur == items[index]
             u == IF cur.t = "ref"
                  THEN update(heap[cur.id], Dicts[kind][new_item.n], 1)
                  ELSE [obj |-> None, r |-> Raise("AttributeError")]
             h1 == IF cur.t = "ref" THEN [heap EXCEPT ![cur.id] = u.obj]
                   ELSE heap
             c == IF u.r.exc = "" THEN check(h1, cur)
                  ELSE [r |-> u.r, heap |-> h1]
         IN
         Leave(c.heap, items, present, Called("edit_item", c.r, None))
    ELSE Leave(heap, items, present, Called("edit_item", Raise("ValueError"), None))

(***************************************************************************)
(* The calls of the caller.                                                *)
(***************************************************************************)
TypedList_insert(index, value) ==
    /\ Len(items) < MaxLen
    /\ Do(insert(index, value))

TypedList_append(value) ==
    /\ Len(items) < MaxLen
    /\ Do(append(value))

\* TiaSheetModel.add_item(item): self.append(item)
add_item(item) ==
    /\ kind # "TypedList"
    /\ Len(items) < MaxLen
    /\ Do(append(item))

TypedList_setitem(index, value) == Do(setitem(index, value))

TypedList_delitem(idx) ==
    Do(delitem("delitem",
               IF idx >= Len(items) THEN Raise("IndexError") ELSE NoExc, idx))

TypedList_remove(value) == Do(remove(value))

\* TiaSheetModel.delete_item(item): self.remove(item)
delete_item(item) ==
    /\ kind # "TypedList"
    /\ Do(remove(item))

\* TiaSheetModel.edit_item(old_item, new_item)
edit_item(old_item, new_item) ==
    /\ kind # "TypedList"
    /\ Do(edit(old_item, new_item))

\* The body of CashAccounting.sorted: self.items = sorted(...); return self.
\* The record of the call keeps the item that was first before the sort.
sort ==
    Leave(heap, sorted_by_date(heap, items), present,
          Called("sorted", NoExc,
                 IF Len(items) > 0 THEN Content(heap, items[1]) ELSE None))

\* CashAccounting.sorted
CashAccounting_sorted ==
    /\ kind = "CashAccounting"
    /\ Do(sort)

NewItems == Args \cup {Dict(n) : n \in 1 .. Len(Dicts[kind])}

Next ==
    \/ \E x \in {400, SENTINEL, 10000} : SetConfigVat(x)
    \/ \E v \in Args : TypedList_append(v)
    \/ \E v \in Args : \E i \in 0 .. Len(items) : TypedList_insert(i, v)
    \/ \E v \in Args : \E i \in 0 .. Len(items) : TypedList_setitem(i, v)
    \/ \E i \in 0 .. Len(items) : TypedList_delitem(i)
    \/ \E v \in Args : TypedList_remove(v)
    \/ \E v \in Args : add_item(v)
    \/ \E v \in Args : delete_item(v)
    \/ \E v \in Args : \E n \in NewItems : edit_item(v, n)
    \/ CashAccounting_sorted

Spec == Init /\ [][Next]_vars

\* The behaviours of a container that was constructed empty: every item it
\* holds has been inserted by a call.
InitEmpty == Init /\ items = <<>>
SpecEmpty == InitEmpty /\ [][Next]_vars

(***************************************************************************)
(* The backend: files, JSON and the invoices of the database.              *)
(***************************************************************************)
\* How many invoice numbers <year>001, <year>002, ... callers use.
MaxInv == 1

\* s in f, for strings as sequences
Contains(s, f) ==
    \E i \in 1 .. Len(f) + 1 :
        /\ i + Len(s) - 1 <= Len(f)
        /\ SubSeq(f, i, i + Len(s) - 1) = s

\* a < b, for strings of digits
Before(a, b) ==
    LET ord(c) == CHOOSE d \in 0 .. 9 : Digit[d + 1] = c IN
    \E i \in 1 .. Len(b) :
        /\ i <= Len(a) + 1
        /\ SubSeq(a, 1, i - 1) = SubSeq(b, 1, i - 1)
        /\ i = Len(a) + 1 \/ ord(a[i]) < ord(b[i])

\* An object that holds items (an Invoice, a CashAccounting) as a value: its
\* other fields, and the items it holds.
Object(fields, xs) == [t |-> fields.cls, fields |-> fields, items |-> xs]

\* A CashAccounting apart from its items.
CashAccounting == [cls |-> "CashAccounting"]

\* TIA.invoice_dir, TIA.cash_acc_dir: the paths of the directories
invoice_dir_path == << "parent_dir", "/.invoices/" >> \o str(year) \o << "/" >>
cash_acc_dir_path == << "parent_dir", "/.cash_accs/" >> \o str(year) \o << "/" >>

\* The name of TIA.invoice_filename(invoicenumber): config_<invoicenumber>.json
invoice_filename(invoicenumber) == << "config_" >> \o invoicenumber \o << ".json" >>

\* The name of TIA._ca_filename: <BS_BASENAME><year>.json
ca_filename == << "EUR_" >> \o str(year) \o << ".json" >>

\* A file of a directory, and open(filename, "w") followed by f.write(text).
File(name, text) == [name |-> name, text |-> text]
Write(dir, name, text) == {f \in dir : f.name # name} \cup {File(name, text)}

\* TIA.list_files(dir, return_path): the paths, or the names, of the files
list_files(dir, path, return_path) ==
    {IF return_path THEN path \o f.name ELSE f.name : f \in dir}

\* BaseModel.json(): an item is the object of its fields, a date its ISO
\* string, None is null.
Null == [t |-> "null"]
json_item(item) == [f \in Fields[item.cls] |-> item[f]]
json(obj) ==
    IF obj.t = "Invoice"
    THEN [invoicenumber |-> obj.fields.invoicenumber,
          items |-> [k \in 1 .. Len(obj.items) |-> json_item(obj.items[k])],
          payed_on |-> IF obj.fields.payed_on = None THEN Null
                       ELSE StrVal(obj.fields.payed_on.ordinal)]
    ELSE [items |-> [k \in 1 .. Len(obj.items) |-> json_item(obj.items[k])]]

\* BaseModel.parse_raw(text) of the class cls: the objects are constructed
\* from the JSON text and every field is validated.
parse_item(cls, o) == [f \in Fields[cls] \cup {"cls"} |-> IF f = "cls" THEN cls ELSE o[f]]
parse_raw(cls, text) ==
    LET xs == [k \in 1 .. Len(text.items) |->
                  parse_item(IF cls = "Invoice" THEN "InvoiceItem"
                             ELSE "AccountingItem", text.items[k])]
    IN
    IF \E k \in 1 .. Len(xs) : construct(xs[k]).exc # ""
    THEN [r |-> Raise("ValidationError"), value |-> None]
    ELSE [r |-> NoExc,
          value |-> IF cls = "Invoice"
                    THEN Object(Invoice(text.invoicenumber,
                                        IF text.payed_on = Null THEN None
                                        ELSE Date(text.payed_on.s)), xs)
                    ELSE Object(CashAccounting, xs)]

\* The classes that have TiaBaseModel among their bases; the sheets and
\* Client derive from TiaGenericModel and CompanyAndClientABCBaseModel.
TiaBaseModels ==
    {"TIA", "TiaItemModel", "InvoiceItem", "AccountingItem", "InvoiceMetadata",
     "Printer"}

\* cls.from_file(filepath), for the file at that path (None if there is
\* none): the attribute is looked up on the class, then the file is opened
\* and parsed.
from_file(cls, file) ==
    IF cls \notin TiaBaseModels
    THEN [r |-> Raise("AttributeError"), value |-> None]
    ELSE IF file = None
    THEN [r |-> Raise("FileNotFoundError"), value |-> None]
    ELSE parse_raw(cls, file.text)

\* sorted(objs, key=operator.attrgetter("invoicenumber"))
RECURSIVE sorted(_)
sorted(objs) ==
    IF objs = {} THEN << >>
    ELSE LET first == CHOOSE o \in objs :
                 \A p \in objs : ~ Before(p.fields.invoicenumber,
                                          o.fields.invoicenumber)
         IN << first >> \o sorted(objs \ {first})

\* TIA.invoices, for the files of dir
invoices(dir) ==
    IF list_files(dir, invoice_dir_path, TRUE) = {}
    THEN [r |-> NoExc, value |-> << >>]
    ELSE LET loaded == {from_file("Invoice", f) : f \in dir} IN
         IF \E l \in loaded : l.r.exc # ""
         THEN [r |-> (CHOOSE l \in loaded : l.r.exc # "").r, value |-> << >>]
         ELSE [r |-> NoExc, value |-> sorted({l.value : l \in loaded})]

\* TIA.last_invoicenumber
last_invoicenumber(dir) ==
    LET all == invoices(dir) IN
    IF all.r.exc # "" THEN [r |-> all.r, value |-> << >>]
    ELSE [r |-> NoExc,
          value |-> IF all.value = << >> THEN str(year) \o << "0", "0", "0" >>
                    ELSE all.value[Len(all.value)].fields.invoicenumber]

\* TIA.get_invoice(invoice_or_invoicenumber): what the call can raise or
\* return, one outcome for each file the listing may yield first.
get_invoice(dir, x) ==
    IF x.t = "str"
    THEN LET hits == {f \in dir : Contains(x.s, f.name)} IN
         IF hits = {} THEN {[r |-> Raise("ValueError"), value |-> None]}
         ELSE {from_file("Invoice", f) : f \in hits}
    ELSE IF x.t = "Invoice"
    THEN IF \E path \in list_files(dir, invoice_dir_path, TRUE) :
                Contains(x.fields.invoicenumber, path)
         THEN {[r |-> NoExc, value |-> x]}
         ELSE {[r |-> Raise("ValueError"), value |-> None]}
    ELSE {[r |-> Raise("TypeError"), value |-> None]}

(***************************************************************************)
(* The calls of a TIA.  A call leaves what it raised (r), the invoice the  *)
(* TIA has opened with its items, and the two directories.                 *)
(***************************************************************************)
Result(r, inv, h, s, idir, cdir) ==
    [r |-> r, tia_invoice |-> inv, heap |-> h, items |-> s,
     invoice_dir |-> idir, cash_acc_dir |-> cdir]

\* A call that raises r before it has changed anything.
Raised(r) == Result(r, tia_invoice, heap, items, invoice_dir, cash_acc_dir)

\* The items xs of an object as a list of objects of their own.
Load(xs) ==
    [heap |-> [id \in ObjIds |-> IF id <= Len(xs) THEN xs[id] ELSE None],
     items |-> [i \in 1 .. Len(xs) |-> Ref(i)]]

\* self.invoice with the items it holds
Opened(inv, h, s) == Object(inv, Contents(h, s))

\* The values a caller passes to a TIA: a string, no argument, an Invoice
\* (an Object), an AccountingItem.
NoArg == [t |-> "None"]
Accounting(item) == [t |-> "AccountingItem", item |-> item]

\* TIA.save_invoice(invoice)
save_invoice(dir, invoice) ==
    IF invoice = NoArg
    THEN [r |-> Raise("TIANoInvoiceOpenedError"), dir |-> dir]
    ELSE [r |-> NoExc,
          dir |-> Write(dir, invoice_filename(invoice.fields.invoicenumber),
                        json(invoice))]

\* TIA.save_cash_acc(obj)
save_cash_acc(dir, obj) == Write(dir, ca_filename, json(obj))

\* TIA.cash_acc: the ledger of the file, or an empty one for the exceptions
\* the property catches.
cash_acc(dir) ==
    LET file == IF \E f \in dir : f.name = ca_filename
                THEN CHOOSE f \in dir : f.name = ca_filename ELSE None
        result == from_file("CashAccounting", file)
    IN
    IF result.r.exc \in {"FileNotFoundError", "ValueError", "ValidationError",
                         "TypeError"}
    THEN [r |-> NoExc, value |-> Object(CashAccounting, << >>)]
    ELSE result

\* TIA._load_client(client), for a Client, a path, or None; the directory of
\* the clients holds no file.
load_client(client) ==
    IF client = "Path" THEN from_file("Client", None).r
    ELSE IF client = "Client" THEN NoExc
    ELSE Raise("ValueError")

\* TIA.new_invoice(client=client, items=xs)
new_invoice(client, xs) ==
    LET number == last_invoicenumber(invoice_dir)
        c == load_client(client)
        invoice == Object(Invoice(str(int(number.value) + 1), None), xs)
    IN
    IF number.r.exc # "" THEN Raised(number.r)
    ELSE IF c.exc # "" THEN Raised(c)
    ELSE Result(NoExc, invoice.fields, Load(xs).heap, Load(xs).items,
                save_invoice(invoice_dir, invoice).dir, cash_acc_dir)

\* TIA.open_invoice(x): the outcomes of self.invoice = self.get_invoice(x)
open_invoice(x) ==
    {IF g.r.exc # "" THEN Raised(g.r)
     ELSE Result(NoExc, g.value.fields, Load(g.value.items).heap,
                 Load(g.value.items).items, invoice_dir, cash_acc_dir) :
        g \in get_invoice(invoice_dir, x)}

\* TIA.follow_up_invoice(invoice_a, invoice_b)
follow_up_invoice(invoice_a, invoice_b) ==
    int(invoice_b.fields.invoicenumber) > int(invoice_a.fields.invoicenumber)

\* TIA.decrement_invoicenumber(invoice_b)
decrement_invoicenumber(dir, invoice_b) ==
    save_invoice(dir,
                 Object(Invoice(str(int(invoice_b.fields.invoicenumber) - 1),
                                invoice_b.fields.payed_on),
                        invoice_b.items)).dir

\* The loop of TIA._adjust_invoicenumbers from the k-th invoice on.
RECURSIVE decrement_from(_, _, _, _)
decrement_from(dir, all, k, deleted_invoice) ==
    IF k > Len(all) THEN dir
    ELSE decrement_from(IF follow_up_invoice(deleted_invoice, all[k])
                        THEN decrement_invoicenumber(dir, all[k]) ELSE dir,
                        all, k + 1, deleted_invoice)

\* TIA._adjust_invoicenumbers(deleted_invoice)
adjust_invoicenumbers(dir, deleted_invoice) ==
    LET all == invoices(dir) IN
    IF all.r.exc # "" THEN [r |-> all.r, dir |-> dir]
    ELSE [r |-> NoExc, dir |-> decrement_from(dir, all.value, 1, deleted_invoice)]

\* TIA._delete_files(invoicenumber)
delete_files(dir, invoicenumber) ==
    {f \in dir : ~ Contains(invoicenumber, invoice_dir_path \o f.name)}

\* TIA.delete_invoice(x): the outcomes
delete_invoice(x) ==
    LET number == last_invoicenumber(invoice_dir)
        arg == IF x = NoArg THEN StrVal(number.value) ELSE x
    IN
    IF x = NoArg /\ number.r.exc # "" THEN {Raised(number.r)}
    ELSE {IF g.r.exc # "" THEN Raised(g.r)
          ELSE LET a == adjust_invoicenumbers(invoice_dir, g.value)
                   n == last_invoicenumber(a.dir)
               IN
               IF a.r.exc # "" THEN Raised(a.r)
               ELSE IF n.r.exc # ""
               THEN Result(n.r, tia_invoice, heap, items, a.dir, cash_acc_dir)
               ELSE Result(NoExc, tia_invoice, heap, items,
                           delete_files(a.dir, n.value), cash_acc_dir) :
             g \in get_invoice(invoice_dir, arg)}

\* The call of a method of self.invoice followed by save_invoice: the list
\* as the method left it, saved unless the method raised.
Saved(res) ==
    Result([exc |-> res.last.exc, msg |-> res.last.msg], tia_invoice,
           res.heap, res.items,
           IF res.last.exc # "" THEN invoice_dir
           ELSE save_invoice(invoice_dir,
                             Opened(tia_invoice, res.heap, res.items)).dir,
           cash_acc_dir)

\* The call of a method of the ledger followed by save_cash_acc.
SavedLedger(r, xs) ==
    Result(r, tia_invoice, heap, items, invoice_dir,
           IF r.exc # "" THEN cash_acc_dir
           ELSE save_cash_acc(cash_acc_dir, Object(CashAccounting, xs)))

\* list.index and the methods of a ledger that holds the values xs
Position(xs, x) ==
    IF \E k \in 1 .. Len(xs) : xs[k] = x
    THEN CHOOSE k \in 1 .. Len(xs) : xs[k] = x /\ \A j \in 1 .. k - 1 : xs[j] # x
    ELSE 0

\* TIA.add_item(item)
tia_add_item(item) ==
    LET a == Pass(heap, item)
        ca == cash_acc(cash_acc_dir)
    IN
    IF tia_invoice = None THEN Raised(Raise("TIANoInvoiceOpenedError"))
    ELSE IF IsInstance(a.heap, a.v, "InvoiceItem") THEN Saved(append(item))
    ELSE IF IsInstance(a.heap, a.v, "AccountingItem")
    THEN IF ca.r.exc # "" THEN Raised(ca.r)
         ELSE SavedLedger(NoExc, Append(ca.value.items, item.item))
    ELSE Raised(Raise("TypeError"))

\* TIA.delete_item(item)
tia_delete_item(item) ==
    LET a == Pass(heap, item)
        ca == cash_acc(cash_acc_dir)
        k == Position(ca.value.items, item.item)
    IN
    IF tia_invoice = None THEN Raised(Raise("TIANoInvoiceOpenedError"))
    ELSE IF IsInstance(a.heap, a.v, "InvoiceItem") THEN Saved(remove(item))
    ELSE IF IsInstance(a.heap, a.v, "AccountingItem")
    THEN IF ca.r.exc # "" THEN Raised(ca.r)
         ELSE IF k = 0 THEN Raised(Raise("ValueError"))
         ELSE SavedLedger(NoExc, [i \in 1 .. Len(ca.value.items) - 1 |->
                                     ca.value.items[IF i < k THEN i ELSE i + 1]])
    ELSE Raised(Raise("TypeError"))

\* TIA.edit_item with the comparison of the types before the test for an
\* opened invoice.
tia_edit_item_TypesFirst(old_item, new_item) ==
    LET o == Pass(heap, old_item)
        a == Pass(heap, new_item)
        ca == cash_acc(cash_acc_dir)
        k == Position(ca.value.items, old_item.item)
        u == update(ca.value.items[k], Dicts[kind][new_item.n], 1)
    IN
    IF new_item.t # "dict" /\ TypeOf(a.heap, a.v) # TypeOf(o.heap, o.v)
    THEN Raised(Raise("ValueError"))
    ELSE IF tia_invoice = None THEN Raised(Raise("TIANoInvoiceOpenedError"))
    ELSE IF IsInstance(o.heap, o.v, "InvoiceItem")
    THEN Saved(edit(old_item, new_item))
    ELSE IF IsInstance(o.heap, o.v, "AccountingItem")
    THEN IF ca.r.exc # "" THEN Raised(ca.r)
         ELSE IF k = 0 THEN Raised(Raise("ValueError"))
         ELSE IF new_item.t = "dict"
         THEN SavedLedger(u.r, [ca.value.items EXCEPT ![k] = u.obj])
         ELSE SavedLedger(NoExc, [ca.value.items EXCEPT ![k] = new_item.item])
    ELSE Raised(Raise("TypeError"))

\* TIA.edit_item(old_item, new_item)
tia_edit_item(old_item, new_item) ==
    LET o == Pass(heap, old_item)
        a == Pass(heap, new_item)
        ca == cash_acc(cash_acc_dir)
        k == Position(ca.value.items, old_item.item)
        u == update(ca.value.items[k], Dicts[kind][new_item.n], 1)
    IN
    IF tia_invoice = None THEN Raised(Raise("TIANoInvoiceOpenedError"))
    ELSE IF new_item.t # "dict" /\ TypeOf(a.heap, a.v) # TypeOf(o.heap, o.v)
    THEN Raised(Raise("ValueError"))
    ELSE IF IsInstance(o.heap, o.v, "InvoiceItem")
    THEN Saved(edit(old_item, new_item))
    ELSE IF IsInstance(o.heap, o.v, "AccountingItem")
    THEN IF ca.r.exc # "" THEN Raised(ca.r)
         ELSE IF k = 0 THEN Raised(Raise("ValueError"))
         ELSE IF new_item.t = "dict"
         THEN SavedLedger(u.r, [ca.value.items EXCEPT ![k] = u.obj])
         ELSE SavedLedger(NoExc, [ca.value.items EXCEPT ![k] = new_item.item])
    ELSE Raised(Raise("TypeError"))


\* InvoiceConfiguration.date and .deadline of the default configuration, and
\* Invoice.due_to
today == 1
deadline == 30
due_to == Date(today + deadline)

\* Invoice.meta of an Invoice object: InvoiceMetadata(...) with value the
\* total (1/Scale units) and vat tax / subtotal * 100; pydantic validates
\* value > 0 and 0 <= vat < 100.
Invoice_meta(invoice) ==
    LET h == Load(invoice.items).heap
        s == Load(invoice.items).items
    IN
    IF TiaSheetModel_subtotal(h, s) = 0
    THEN [r |-> Raise("ZeroDivisionError"), value |-> None]
    ELSE IF /\ TiaSheetModel_total(h, s) > 0
            /\ TiaSheetModel_tax(h, s) >= 0
            /\ TiaSheetModel_tax(h, s) < VatLimit * TiaSheetModel_subtotal(h, s)
    THEN [r |-> NoExc,
          value |-> [cls |-> "InvoiceMetadata",
                     invoicenumber |-> invoice.fields.invoicenumber,
                     value |-> TiaSheetModel_total(h, s),
                     due_to |-> due_to,
                     vat |-> Ratio(TiaSheetModel_tax(h, s),
                                   TiaSheetModel_subtotal(h, s)),
                     payed_on |-> invoice.fields.payed_on]]
    ELSE [r |-> Raise("ValidationError"), value |-> None]

\* TIA.invoices_meta_list: the metadata of self.invoices, which are sorted
\* by invoicenumber.
invoices_meta_list(dir) ==
    LET all == invoices(dir)
        meta_list == [k \in 1 .. Len(all.value) |-> Invoice_meta(all.value[k])]
    IN
    IF all.r.exc # "" THEN [r |-> all.r, value |-> << >>]
    ELSE IF \E k \in 1 .. Len(meta_list) : meta_list[k].r.exc # ""
    THEN [r |-> meta_list[CHOOSE k \in 1 .. Len(meta_list) :
                              /\ meta_list[k].r.exc # ""
                              /\ \A j \in 1 .. k - 1 : meta_list[j].r.exc = ""].r,
          value |-> << >>]
    ELSE [r |-> NoExc,
          value |-> [k \in 1 .. Len(meta_list) |-> meta_list[k].value]]

(***************************************************************************)
(* A TIA and its callers.                                                  *)
(***************************************************************************)
\* The step in which the TIA becomes what the call op left.
DoTIA(op, res) ==
    /\ tia_invoice' = res.tia_invoice
    /\ items' = res.items
    /\ heap' = res.heap
    /\ present' = Len(res.items)
    /\ invoice_dir' = res.invoice_dir
    /\ cash_acc_dir' = res.cash_acc_dir
    /\ last' = Called(op, res.r, None)
    /\ UNCHANGED <<kind, config_vat, company>>

\* A call that only reads.
Read(op, r) == DoTIA(op, Raised(r))

\* What callers pass: the invoice numbers <year>001, ... and the year, as
\* strings and as the numbers of invoices they have constructed (those
\* numbered as the TIA numbers them are also saved), a ledger, and as items
\* the objects of the opened invoice, a new InvoiceItem, an AccountingItem,
\* an int, a mapping with an unknown key.
Numbers == {str(year * 1000 + k) : k \in 1 .. MaxInv}
Strings == {StrVal(n) : n \in Numbers \cup {str(year), << "invalid" >>}}
Invoices == {Object(Invoice(n, None), << >>) : n \in Numbers}
Strays == {Object(Invoice(str(year), None), << >>)}
Ledgers == {Object(CashAccounting, << Protos.CashAccounting[1] >>)}
Items ==
    {Ref(id) : id \in Held(items)}
        \cup {New(1), IntVal(1), Accounting(Protos.CashAccounting[1])}
Mappings == {Dict(4)}

\* The TIA numbers at most MaxInv invoices.
TIA_new_invoice(client, xs) ==
    /\ last_invoicenumber(invoice_dir).r.exc = "" =>
           int(last_invoicenumber(invoice_dir).value) < year * 1000 + MaxInv
    /\ DoTIA("TIA.new_invoice", new_invoice(client, xs))

TIA_open_invoice(x) ==
    \E res \in open_invoice(x) : DoTIA("TIA.open_invoice", res)

TIA_get_invoice(x) ==
    \E g \in get_invoice(invoice_dir, x) : Read("TIA.get_invoice", g.r)

TIA_delete_invoice(x) ==
    \E res \in delete_invoice(x) : DoTIA("TIA.delete_invoice", res)

TIA_save_invoice(invoice) ==
    LET res == save_invoice(invoice_dir, invoice) IN
    DoTIA("TIA.save_invoice",
          Result(res.r, tia_invoice, heap, items, res.dir, cash_acc_dir))

TIA_save_cash_acc(obj) ==
    DoTIA("TIA.save_cash_acc",
          Result(NoExc, tia_invoice, heap, items, invoice_dir,
                 save_cash_acc(cash_acc_dir, obj)))

TIA_cash_acc == Read("TIA.cash_acc", cash_acc(cash_acc_dir).r)

TIA_invoices_meta_list ==
    Read("TIA.invoices_meta_list", invoices_meta_list(invoice_dir).r)

TIA_add_item(item) ==
    /\ Len(items) < MaxLen
    /\ DoTIA("TIA.add_item", tia_add_item(item))

TIA_delete_item(item) == DoTIA("TIA.delete_item", tia_delete_item(item))

TIA_edit_item(old_item, new_item) ==
    DoTIA("TIA.edit_item", tia_edit_item(old_item, new_item))

InitTIA ==
    /\ kind = "Invoice"
    /\ config_vat = 400
    /\ heap = [id \in ObjIds |-> None]
    /\ items = << >>
    /\ present = 0
    /\ last = Called("init", NoExc, None)
    /\ tia_invoice = None
    /\ invoice_dir = {}
    /\ cash_acc_dir = {}
    /\ company = [called |-> FALSE]

NextTIA ==
    \/ \E client \in {"Client", "Path", "None"} :
           \E xs \in {<< >>, << Protos.Invoice[1] >>} : TIA_new_invoice(client, xs)
    \/ \E x \in Strings \cup Invoices \cup Strays : TIA_open_invoice(x)
    \/ \E x \in Strings \cup Invoices \cup Strays : TIA_get_invoice(x)
    \/ \E x \in {NoArg} \cup Strings \cup Invoices \cup Strays :
           TIA_delete_invoice(x)
    \/ \E x \in {NoArg} \cup Invoices : TIA_save_invoice(x)
    \/ \E obj \in Ledgers : TIA_save_cash_acc(obj)
    \/ TIA_cash_acc
    \/ TIA_invoices_meta_list
    \/ \E item \in Items : TIA_add_item(item)
    \/ \E item \in Items : TIA_delete_item(item)
    \/ \E old \in Items : \E new \in Items \cup Mappings : TIA_edit_item(old, new)

SpecTIA == InitTIA /\ [][NextTIA]_vars

(***************************************************************************)
(* The Company: the validation of its bank account.  `company` is the     *)
(* last call of the constructor: the values it was given, what it raised  *)
(* and the fields of the Company it made.  An optional string is the      *)
(* empty sequence for None and the one-element sequence of the string     *)
(* otherwise.                                                              *)
(***************************************************************************)
Nothing == << >>
Some(string) == << string >>

\* bool(x) of an optional string: None and "" are false.
Truthy(x) == x # Nothing /\ x # Some("")

\* a or b
Or(a, b) == IF Truthy(a) THEN a ELSE b

\* str(x) of an optional string
str_of(x) == IF x = Nothing THEN "None" ELSE x[1]

\* schwifty's IBAN(iban): ValueError for a string that is no valid IBAN
\* (blanks are dropped before the string is looked at).
IBAN(iban) ==
    IF iban \in {"DE89 3704 0044 0532 0130 00", "DE89370400440532013000",
                 "GB51RPOQ40801609753513"}
    THEN NoExc
    ELSE Raise("ValueError")

\* IBAN.bic: the BIC of the bank the bank code of a valid IBAN belongs to,
\* None when the registry knows no such bank.
IBAN_bic(iban) ==
    IF iban \in {"DE89 3704 0044 0532 0130 00", "DE89370400440532013000"}
    THEN Some("COBADEFFXXX")
    ELSE Nothing

\* BIC.bank_short_names
bank_short_names(bic) ==
    IF bic = "COBADEFFXXX" THEN << "CommerzBk TF MZ 1, Mainz" >> ELSE << >>

\* The values given to Company (aliases resolved, a missing bic or bank set
\* to None by _prepare_values).
CompanyDict(validate_account_information, iban, bic, bank) ==
    [validate_account_information |-> validate_account_information,
     iban |-> iban, bic |-> bic, bank |-> bank]

\* Company._raise_error_if_bic_or_bank_is_not_given
raise_error_if_bic_or_bank_is_not_given(values) ==
    IF ~Truthy(values.bic)
    THEN [exc |-> "CompanyAccountDataMissingError",
          msg |-> << "Company BIC is missing." >>]
    ELSE IF ~Truthy(values.bank)
    THEN [exc |-> "CompanyAccountDataMissingError",
          msg |-> << "Company Bank is missing." >>]
    ELSE NoExc

\* Company._set_and_validate_account_information
set_and_validate_account_information(values) ==
    IF IBAN(values.iban).exc # ""
    THEN [r |-> IBAN(values.iban), values |-> values]
    ELSE LET bic == IBAN_bic(values.iban)
             bank == IF bic = Nothing THEN Nothing
                     ELSE Some(bank_short_names(bic[1])[1])
         IN [r |-> NoExc,
             values |-> [values EXCEPT !.bic = Or(Some(str_of(bic)), values.bic),
                                       !.bank = Or(bank, values.bank)]]

\* Company.bic_and_bank_given_if_no_account_validation (root validator)
bic_and_bank_given_if_no_account_validation(values) ==
    IF ~values.validate_account_information
    THEN [r |-> raise_error_if_bic_or_bank_is_not_given(values), values |-> values]
    ELSE set_and_validate_account_information(values)

\* Company.validate_completeness_of_account_information, for one field
validate_completeness_of_account_information(v) ==
    IF v = Nothing
    THEN [exc |-> "CompanyAccountDataMissingError",
          msg |-> << "Companybic or Companybank are missing." >>]
    ELSE NoExc

\* Company(**values): pydantic runs the root validator, then the validators
\* of the fields, and reports what they raise as a ValidationError.
Company(values) ==
    LET v == bic_and_bank_given_if_no_account_validation(values)
        ValidationError(r) == [exc |-> "ValidationError", msg |-> r.msg]
    IN
    IF v.r.exc # "" THEN [r |-> ValidationError(v.r), obj |-> None]
    ELSE IF validate_completeness_of_account_information(v.values.bic).exc # ""
    THEN [r |-> ValidationError(
                   validate_completeness_of_account_information(v.values.bic)),
          obj |-> None]
    ELSE IF validate_completeness_of_account_information(v.values.bank).exc # ""
    THEN [r |-> ValidationError(
                   validate_completeness_of_account_information(v.values.bank)),
          obj |-> None]
    ELSE [r |-> NoExc, obj |-> v.values]

\* What callers give as IBAN, BIC and bank.
IBANs == {"DE89 3704 0044 0532 0130 00", "DE89370400440532013000",
          "DE89 3704 0044 0532 0130", "GB51RPOQ40801609753513"}
BICs == {Nothing, Some(""), Some("some word"), Some("COBADEFFXXX")}
Banks == {Nothing, Some(""), Some("fight"), Some("CommerzBk TF MZ 1, Mainz")}

\* The constructor of Company is called.
Company_init(validate_account_information, iban, bic, bank) ==
    /\ LET values == CompanyDict(validate_account_information, iban, bic, bank)
       IN company' = [called |-> TRUE, values |-> values,
                      r |-> Company(values).r, obj |-> Company(values).obj]
    /\ UNCHANGED <<kind, items, heap, config_vat, last, present, tia>>

InitCompany ==
    /\ kind = "TypedList"
    /\ config_vat = 0
    /\ heap = [id \in ObjIds |-> None]
    /\ items = << >>
    /\ present = 0
    /\ last = Called("init", NoExc, None)
    /\ tia_invoice = None
    /\ invoice_dir = {}
    /\ cash_acc_dir = {}
    /\ company = [called |-> FALSE]

NextCompany ==
    \E validate \in BOOLEAN : \E iban \in IBANs : \E bic \in BICs : \E bank \in Banks :
        Company_init(validate, iban, bic, bank)

SpecCompany == InitCompany /\ [][NextCompany]_vars

(***************************************************************************)
(* What the calls are passed.                                              *)
(***************************************************************************)
\* The argument as the call sees it.
ArgType(v) == TypeOf(Pass(heap, v).heap, Pass(heap, v).v)
ArgContent(v) == Content(Pass(heap, v).heap, Pass(heap, v).v)
Conforms(v) == ArgType(v) = item_type
\* An element of the list equals the argument.
Found(v) ==
    \E k \in 1 .. Len(items) :
       Content(heap, items[k]) = Content(Pass(heap, v).heap, Pass(heap, v).v)
DictIds == 1 .. Len(Dicts[kind])

\* The step is the call op.
Did(op) == last'.op = op
Keys(d) == {d[k].k : k \in 1 .. Len(d)}

\* Every element of the list is an instance of the item type.
AllInstances(h, s) == \A k \in 1 .. Len(s) : IsInstance(h, s[k], item_type)

\* The call whose outcome is res raised exc and left the container as it was.
Refused(res, exc) ==
    /\ res.last.exc = exc
    /\ res.items = items
    /\ res.heap = heap
    /\ Len(res.items) = Len(items)

HasUnknownKey(d) == \E key \in Keys(d) : key \notin Fields[item_type] \cup Properties
C2_UnknownKeyLeavesItems ==
    [][Did("edit_item") =>
         \A old \in Args : \A n \in DictIds :
            (/\ Found(old)
             /\ HasUnknownKey(Dicts[kind][n])
             /\ edit_item(old, Dict(n)))
            => /\ last'.exc = "AttributeError"
               /\ Contents(heap', items') = Contents(heap, items)]_vars

\* C3: delete_item, remove and edit_item of an item that equals no element
\* raise ValueError and leave the items, and their number, as they were.
C3_NotFound ==
    \A v \in Args :
       ~Found(v) =>
          /\ Refused(remove(v), "ValueError")
          /\ kind # "TypedList" =>
                \A n \in NewItems : Refused(edit(v, n), "ValueError")

\* An item that is not in a container with items was to be deleted.
C3_Witness ==
    /\ last.op = "remove"
    /\ last.exc = "ValueError"
    /\ Len(items) > 0

(***************************************************************************)
(* The vat of the items of an Invoice.                                     *)
(***************************************************************************)
VatAt(h, s, k) == Content(h, s[k]).vat

\* The vat an InvoiceItem passed with the vat x is to be stored with.
StoredVat(x) == IF x = SENTINEL THEN config_vat ELSE x

\* The call whose outcome is res raised nothing and left, at the 1-based
\* position k of a list of n elements, an item with the vat x.
Stored(res, n, k, x) ==
    /\ res.last.exc = ""
    /\ Len(res.items) = n
    /\ VatAt(res.heap, res.items, k) = x

\* C4: add_item, insert and indexed set on an Invoice store an InvoiceItem
\* with the vat config.vat when the item is passed with the sentinel vat, and
\* with its own vat otherwise.
C4_SentinelResolved ==
    kind = "Invoice" =>
       \A v \in {a \in Args : Conforms(a)} :
          LET x == StoredVat(ArgContent(v).vat) IN
          /\ Len(items) < MaxLen =>
                /\ Stored(append(v), Len(items) + 1, Len(items) + 1, x)
                /\ \A i \in 0 .. Len(items) :
                      Stored(insert(i, v), Len(items) + 1, i + 1, x)
          /\ \A i \in 0 .. Len(items) - 1 :
                Stored(setitem(i, v), Len(items), i + 1, x)

\* An item passed with the sentinel vat has been added to an Invoice whose
\* config.vat is 4.0 and is stored with the vat 4.0.
C4_Witness ==
    /\ kind = "Invoice"
    /\ last.op = "insert"
    /\ last.exc = ""
    /\ last.pre.vat = SENTINEL
    /\ config_vat = 400
    /\ VatAt(heap, items, Len(items)) = 400

\* C5: an item that a call has inserted into an Invoice keeps the vat it was
\* stored with through every later change of config.vat and every add_item,
\* edit_item and delete_item that does not set the vat of this item (the
\* container starts empty, so every item it holds has been inserted).
SameVats(except) ==
    /\ Len(items') >= Len(items)
    /\ \A k \in (1 .. Len(items)) \ except :
          VatAt(heap', items', k) = VatAt(heap, items, k)
SameVatsBut(d) ==
    /\ Len(items') = Len(items) - 1
    /\ \A k \in 1 .. Len(items') :
          VatAt(heap', items', k) = VatAt(heap, items, IF k < d THEN k ELSE k + 1)
FoundAt(v) == IndexOf(Pass(heap, v).heap, items, Pass(heap, v).v)
C5_VatResolvedOnce ==
    [][kind = "Invoice" =>
        /\ Did("config.vat") => SameVats({})
        /\ Did("insert") =>
             \A v \in Args : (v.t # "ref" /\ add_item(v)) => SameVats({})
        /\ Did("remove") =>
             \A v \in Args :
                delete_item(v) =>
                   IF Found(v) THEN SameVatsBut(FoundAt(v)) ELSE SameVats({})
        /\ Did("edit_item") =>
             \A v \in Args :
                /\ \A n \in DictIds :
                      ("vat" \notin Keys(Dicts[kind][n]) /\ edit_item(v, Dict(n)))
                         => SameVats({})
                /\ \A w \in Args :
                      (w.t # "ref" /\ Found(v) /\ edit_item(v, w))
                         => SameVats({FoundAt(v)})]_vars

(***************************************************************************)
(* The sum of the numbers xs[k] for k in I, in no particular order.        *)
(***************************************************************************)
RECURSIVE SumAt(_, _)
SumAt(xs, I) ==
    IF I = {} THEN 0
    ELSE LET k == CHOOSE k \in I : TRUE IN xs[k] + SumAt(xs, I \ {k})

\* The items the sheet holds now.
Now == Contents(heap, items)
Positions == 1 .. Len(items)

\* C6: on a sheet, after every call, subtotal is the sum of the subtotals of
\* the items it holds now, tax is the sum of subtotal * vat / 100 over them,
\* and total is subtotal + tax.
C6_AggregatesCurrent ==
    kind # "TypedList" =>
       /\ TiaSheetModel_subtotal(heap, items)
             = SumAt([k \in Positions |-> subtotal(Now[k])], Positions)
       /\ TiaSheetModel_tax(heap, items)
             = SumAt([k \in Positions |-> subtotal(Now[k]) * Now[k].vat], Positions)
       /\ TiaSheetModel_total(heap, items)
             = TiaSheetModel_subtotal(heap, items) * Scale
                  + TiaSheetModel_tax(heap, items)

\* An edit_item has just doubled the qty of one of two items of an Invoice:
\* the subtotal is 2 * 3 + 1 * 3 and the tax is not zero.
C6_Witness ==
    /\ kind = "Invoice"
    /\ last.op = "edit_item"
    /\ last.exc = ""
    /\ Len(items) = 2
    /\ Now[1].qty = 2
    /\ Now[2].qty = 1
    /\ TiaSheetModel_subtotal(heap, items) = 9
    /\ TiaSheetModel_tax(heap, items) # 0

\* C7: for every CashAccounting, totals[i] = subtotals[i] + taxes[i] for the
\* revenues and for the expenditures, total = totals[0] + totals[1],
\* subtotal = subtotals[0] + subtotals[1] and tax = taxes[0] + taxes[1].
C7_BucketsAddUp ==
    kind = "CashAccounting" =>
       LET subtotals == CashAccounting_subtotals(heap, items)
           taxes == CashAccounting_taxes(heap, items)
           totals == CashAccounting_totals(heap, items)
       IN
       /\ \A i \in 1 .. 2 : totals[i] = subtotals[i] * Scale + taxes[i]
       /\ TiaSheetModel_total(heap, items) = totals[1] + totals[2]
       /\ TiaSheetModel_subtotal(heap, items) = subtotals[1] + subtotals[2]
       /\ TiaSheetModel_tax(heap, items) = taxes[1] + taxes[2]

\* A CashAccounting holds a revenue and an expenditure, both with a tax.
C7_Witness ==
    /\ kind = "CashAccounting"
    /\ last.op = "insert"
    /\ last.exc = ""
    /\ CashAccounting_subtotals(heap, items)[1] > 0
    /\ CashAccounting_subtotals(heap, items)[2] < 0
    /\ CashAccounting_taxes(heap, items)[1] > 0
    /\ CashAccounting_taxes(heap, items)[2] < 0

(***************************************************************************)
(* Field mappings: the ranges of the fields and what a mapping sets.       *)
(***************************************************************************)
\* The value is in the range of the field key of the class cls.
InRange(cls, key, value) ==
    CASE key = "vat" -> 0 <= value /\ value < VatLimit
      [] key \in {"qty", "unit_price"} /\ cls = "InvoiceItem" -> value > 0
      [] OTHER -> TRUE

\* Entry k of the mapping d sets a field to a value in its range.
SetsField(d, k) ==
    /\ d[k].k \in Fields[item_type]
    /\ InRange(item_type, d[k].k, d[k].v)

\* A mapping of field names to valid values.
ValidMapping(d) == \A k \in 1 .. Len(d) : SetsField(d, k)

\* The value the mapping d gives the key.
ValueOf(d, key) == d[CHOOSE k \in 1 .. Len(d) : d[k].k = key].v

\* C8: edit_item of a present item with a mapping of field names to valid
\* values raises nothing and leaves, at the position of the item, an item
\* whose mapped fields have the new values and whose other fields are as
\* they were.
C8_MappingApplied ==
    [][Did("edit_item") =>
         \A old \in Args : \A n \in DictIds :
            (/\ Found(old)
             /\ ValidMapping(Dicts[kind][n])
             /\ edit_item(old, Dict(n)))
            => LET k == FoundAt(old)
                   d == Dicts[kind][n]
               IN
               /\ last'.exc = ""
               /\ \A f \in Fields[item_type] :
                     Content(heap', items'[k])[f]
                        = IF f \in Keys(d) THEN ValueOf(d, f) ELSE Now[k][f]]_vars

\* The mapping d sets a constrained field out of its range, after entries
\* that set fields to values in their ranges.
OutOfRangeAt(d, k) ==
    /\ \A j \in 1 .. k - 1 : SetsField(d, j)
    /\ d[k].k \in Fields[item_type]
    /\ ~InRange(item_type, d[k].k, d[k].v)
SetsOutOfRange(d) == \E k \in 1 .. Len(d) : OutOfRangeAt(d, k)
Offending(d) == d[CHOOSE k \in 1 .. Len(d) : OutOfRangeAt(d, k)]

\* C9: no item of a sheet has a vat outside [0, 100), and no InvoiceItem a
\* qty or a unit_price that is not positive; edit_item of a present item with
\* a mapping that sets such a field out of its range raises the
\* ValidationError the constructor raises for that value, and the field
\* keeps the value it had.
C9_RangeKept ==
    kind # "TypedList" =>
       /\ \A k \in Positions : \A f \in Fields[item_type] :
             InRange(item_type, f, Now[k][f])
       /\ \A old \in Args : \A n \in DictIds :
             (Found(old) /\ SetsOutOfRange(Dicts[kind][n])) =>
                LET bad == Offending(Dicts[kind][n])
                    k == FoundAt(old)
                    res == edit(old, Dict(n))
                IN
                /\ res.last.exc = "ValidationError"
                /\ res.last.exc = construct([Now[k] EXCEPT ![bad.k] = bad.v]).exc
                /\ Content(res.heap, res.items[k])[bad.k] = Now[k][bad.k]

\* An edit_item that set the unit_price of an InvoiceItem to -1, after it set
\* the qty to 2, has raised ValidationError.
C9_Witness ==
    /\ kind = "Invoice"
    /\ last.op = "edit_item"
    /\ last.exc = "ValidationError"
    /\ \E k \in Positions : Now[k].qty = 2 /\ Now[k].unit_price = 3

\* A vat below zero has been refused by an edit_item on a CashAccounting.
C9_WitnessVat ==
    /\ kind = "CashAccounting"
    /\ last.op = "edit_item"
    /\ last.exc = "ValidationError"
    /\ Len(items) > 0

\* C10: the length of the container is the number of elements present (the
\* inserted less the removed), and the append of a value equal to the one
\* a remove has just removed makes the removed value a member again.
C10_LenAndMembership ==
    [][/\ Len(items') = present'
       /\ (Did("insert") /\ last.op = "remove" /\ last.exc = "") =>
            \A v \in Args :
               (ArgContent(v) = last.pre /\ TypedList_append(v))
               => \E k \in 1 .. Len(items') :
                     Content(heap', items'[k]) = last.pre]_vars
(***************************************************************************)
(* C18: the table row of an AccountingItem is bucketed by the sign of its  *)
(* value: for value >= 0 the revenue columns are (value, value * vat/100, *)
(* value + value * vat/100) and the three expenditure columns are zero;   *)
(* for value < 0 the three revenue columns are zero and the expenditure   *)
(* columns are the negated net, tax and total.                             *)
(***************************************************************************)
\* The columns of a row after date and description.
Revenue(row) == SubSeq(row, 3, 5)
Expenditure(row) == SubSeq(row, 6, 8)
Amounts(x) == << x.value * Scale, x.value * x.vat, x.value * Scale + x.value * x.vat >>

C18_RowBucketed ==
    kind = "CashAccounting" =>
        \A k \in 1 .. Len(items) :
            LET x == Now[k]
                row == AccountingItem_values(x)
            IN
            /\ x.value >= 0 =>
                  /\ Revenue(row) = Amounts(x)
                  /\ Expenditure(row) = << 0, 0, 0 >>
            /\ x.value < 0 =>
                  /\ Revenue(row) = << 0, 0, 0 >>
                  /\ Expenditure(row) = [i \in 1 .. 3 |-> - Amounts(x)[i]]

\* A ledger that holds a revenue and an expenditure.
C18_Witness ==
    /\ kind = "CashAccounting"
    /\ \E k \in 1 .. Len(items) : Now[k].value >= 0 /\ Now[k].vat > 0
    /\ \E k \in 1 .. Len(items) : Now[k].value < 0 /\ Now[k].vat > 0

(***************************************************************************)
(* C19: a TypedList compares equal to another ordered sequence, a plain    *)
(* list or another TypedList, exactly when both have the same length and   *)
(* are element-wise equal; a length mismatch gives unequal, and a          *)
(* comparison with a non-sequence returns NotImplemented.                  *)
(***************************************************************************)
\* The operands the list is compared with: sequences that hold what the list
\* holds, one element less, one element more, and an int.
Operands ==
    {Operand(t, xs) : t \in {"list", "TypedList"},
                      xs \in {Now, SubSeq(Now, 2, Len(Now)), Now \o Now}}
        \cup {Operand("int", <<>>)}

SameElements(xs, ys) ==
    /\ Len(xs) = Len(ys)
    /\ \A i \in 1 .. Len(xs) : xs[i] = ys[i]

C19_EqualsSequences ==
    \A other \in Operands :
        TypedList_eq(heap, items, other) =
            IF other.t \in {"list", "TypedList"}
            THEN IF SameElements(Now, other.items) THEN "True" ELSE "False"
            ELSE "NotImplemented"

(***************************************************************************)
(* C20: for every Invoice, ca_item is None exactly when payed_on is None;  *)
(* otherwise it is an AccountingItem with description                      *)
(* 'Invoice no. <invoicenumber>', value the total of the invoice, vat      *)
(* tax / subtotal * 100, currency config.currency_symbol and date          *)
(* payed_on.                                                               *)
(***************************************************************************)
\* The invoices that hold the items of the state: settled or not.
InvoicesHere ==
    {Invoice(str(year * 1000 + 1), p) : p \in {None, Date(1)}}

NetNow == SumAt([k \in Positions |-> Now[k].qty * Now[k].unit_price], Positions)
TaxNow == SumAt([k \in Positions |-> Now[k].qty * Now[k].unit_price * Now[k].vat],
                Positions)

C20_CaItem ==
    kind = "Invoice" =>
        \A inv \in InvoicesHere :
            LET res == Invoice_ca_item(heap, items, inv) IN
            /\ res.r.exc = ""
            /\ res.value = None <=> inv.payed_on = None
            /\ inv.payed_on # None =>
                  /\ res.value.cls = "AccountingItem"
                  /\ res.value.description = << "Invoice no. " >> \o inv.invoicenumber
                  /\ res.value.value = NetNow * Scale + TaxNow
                  /\ res.value.vat.num * NetNow = TaxNow * res.value.vat.den
                  /\ res.value.currency = currency_symbol
                  /\ res.value.date = inv.payed_on.ordinal

(***************************************************************************)
(* C11: an Invoice or a CashAccounting written as JSON, as save_invoice    *)
(* and save_cash_acc write it, and loaded back with from_file is an        *)
(* instance field-wise equal to the original, also for an unsettled        *)
(* invoice and for items that still carry the sentinel vat.                *)
(***************************************************************************)
\* The file of the name in the directory, None if there is none.
FileOf(dir, name) ==
    IF \E f \in dir : f.name = name
    THEN CHOOSE f \in dir : f.name = name ELSE None

C11_RoundTrip ==
    /\ last.op = "TIA.new_invoice" /\ last.exc = "" =>
          from_file("Invoice",
                    FileOf(invoice_dir, invoice_filename(tia_invoice.invoicenumber)))
              = [r |-> NoExc, value |-> Opened(tia_invoice, heap, items)]
    /\ last.op = "TIA.save_cash_acc" /\ last.exc = "" =>
          \E obj \in Ledgers :
              from_file("CashAccounting", FileOf(cash_acc_dir, ca_filename))
                  = [r |-> NoExc, value |-> obj]

(***************************************************************************)
(* C12: delete_invoice(x) for a stored invoice x with number d removes     *)
(* exactly x: storage then holds one invoice fewer, every invoice that had *)
(* a number greater than d has its number decreased by one and otherwise   *)
(* the same content, the invoices numbered below d are unchanged, and the  *)
(* stored numbers are contiguous from <year>001; without an argument it    *)
(* deletes the invoice with the highest number.                            *)
(***************************************************************************)
StoredNumbers(dir) == {f.text.invoicenumber : f \in dir}
Contiguous(dir) ==
    StoredNumbers(dir) = {str(year * 1000 + k) : k \in 1 .. Cardinality(dir)}
Highest(dir) ==
    CHOOSE n \in StoredNumbers(dir) : \A m \in StoredNumbers(dir) : int(m) <= int(n)

\* The file f once the invoice numbered d is gone.
Shifted(f, d) ==
    IF int(f.text.invoicenumber) > int(d)
    THEN File(invoice_filename(str(int(f.text.invoicenumber) - 1)),
              [f.text EXCEPT !.invoicenumber = str(int(f.text.invoicenumber) - 1)])
    ELSE f

C12_DeleteRenumbers ==
    Contiguous(invoice_dir) =>
        /\ \A d \in StoredNumbers(invoice_dir) :
              \A x \in {StrVal(d), Object(Invoice(d, None), << >>)} :
                  \A res \in delete_invoice(x) :
                      /\ res.r.exc = ""
                      /\ res.invoice_dir =
                            {Shifted(f, d) :
                                f \in {g \in invoice_dir : g.text.invoicenumber # d}}
                      /\ Contiguous(res.invoice_dir)
        /\ invoice_dir # {} =>
              delete_invoice(NoArg) = delete_invoice(StrVal(Highest(invoice_dir)))

(***************************************************************************)
(* C13: new_invoice assigns the number <year>001 when no invoice of the    *)
(* year is stored and otherwise the largest stored number plus one, so the *)
(* numbers of the stored invoices are pairwise distinct and each new       *)
(* number is greater than every number stored when it is created.         *)
(***************************************************************************)
C13_NextNumber ==
    \A xs \in {<< >>, << Protos.Invoice[1] >>} :
        LET res == new_invoice("Client", xs) IN
        /\ res.r.exc = ""
        /\ res.tia_invoice.invoicenumber =
              IF invoice_dir = {} THEN str(year * 1000 + 1)
              ELSE str(int(Highest(invoice_dir)) + 1)
        /\ \A n \in StoredNumbers(invoice_dir) :
              int(res.tia_invoice.invoicenumber) > int(n)
        /\ StoredNumbers(res.invoice_dir) =
              StoredNumbers(invoice_dir) \cup {res.tia_invoice.invoicenumber}
        /\ Cardinality(res.invoice_dir) = Cardinality(invoice_dir) + 1

(***************************************************************************)
(* C14: while no invoice is open, TIA.add_item, TIA.delete_item and        *)
(* TIA.edit_item raise TIANoInvoiceOpenedError for every argument, an      *)
(* InvoiceItem, an AccountingItem or items of different types, and neither *)
(* the stored ledger nor a stored invoice changes; save_invoice(None)      *)
(* raises the same error.                                                  *)
(***************************************************************************)
NothingOpened(res) ==
    /\ res.r.exc = "TIANoInvoiceOpenedError"
    /\ res.tia_invoice = None
    /\ res.invoice_dir = invoice_dir
    /\ res.cash_acc_dir = cash_acc_dir

C14_NoInvoiceOpened ==
    tia_invoice = None =>
        /\ \A item \in Items :
              /\ NothingOpened(tia_add_item(item))
              /\ NothingOpened(tia_delete_item(item))
        /\ \A old \in Items : \A new \in Items \cup Mappings :
              NothingOpened(tia_edit_item(old, new))
        /\ save_invoice(invoice_dir, NoArg) =
              [r |-> Raise("TIANoInvoiceOpenedError"), dir |-> invoice_dir]

\* edit_item has just refused items for want of an opened invoice, with an
\* invoice and a ledger stored.
C14_Witness ==
    /\ tia_invoice = None
    /\ last.op = "TIA.edit_item"
    /\ last.exc = "TIANoInvoiceOpenedError"
    /\ invoice_dir # {}
    /\ cash_acc_dir # {}

(***************************************************************************)
(* C15: with an invoice open, TIA.add_item dispatches on the type of the   *)
(* item and persists the result: for an AccountingItem the ledger re-read  *)
(* from storage is the stored ledger with the item appended, and the open  *)
(* invoice and its file are unchanged; for an InvoiceItem the item is      *)
(* appended to the open invoice and saved to its file, and the stored      *)
(* ledger is unchanged.                                                    *)
(***************************************************************************)
C15_AddItemDispatch ==
    tia_invoice # None /\ Len(items) < MaxLen =>
        /\ LET a == Protos.CashAccounting[1]
               res == tia_add_item(Accounting(a))
           IN
           /\ res.r.exc = ""
           /\ cash_acc(res.cash_acc_dir).r.exc = ""
           /\ cash_acc(res.cash_acc_dir).value.items =
                 Append(cash_acc(cash_acc_dir).value.items, a)
           /\ res.tia_invoice = tia_invoice
           /\ Contents(res.heap, res.items) = Contents(heap, items)
           /\ res.invoice_dir = invoice_dir
        /\ LET res == tia_add_item(New(1)) IN
           /\ res.r.exc = ""
           /\ Contents(res.heap, res.items) =
                 Append(Contents(heap, items),
                        [Protos.Invoice[1] EXCEPT !.vat = config_vat])
           /\ FileOf(res.invoice_dir, invoice_filename(tia_invoice.invoicenumber)).text
                 = json(Opened(tia_invoice, res.heap, res.items))
           /\ res.cash_acc_dir = cash_acc_dir

(***************************************************************************)
(* C16: get_invoice(s) with a string s returns the stored invoice whose    *)
(* number equals s and raises ValueError whenever no stored invoice has    *)
(* the number s; open_invoice and delete_invoice called with a number or   *)
(* an Invoice that is not stored raise ValueError and leave storage and    *)
(* tia.invoice unchanged.                                                  *)
(***************************************************************************)
NumberOf(x) == IF x.t = "str" THEN x.s ELSE x.fields.invoicenumber

C16_LookupByNumber ==
    /\ \A s \in Strings :
          \A g \in get_invoice(invoice_dir, s) :
              IF s.s \in StoredNumbers(invoice_dir)
              THEN /\ g.r.exc = ""
                   /\ json(g.value) =
                         FileOf(invoice_dir, invoice_filename(s.s)).text
              ELSE g.r.exc = "ValueError"
    /\ \A x \in Strings \cup Invoices \cup Strays :
          NumberOf(x) \notin StoredNumbers(invoice_dir) =>
              /\ open_invoice(x) = {Raised(Raise("ValueError"))}
              /\ delete_invoice(x) = {Raised(Raise("ValueError"))}

(***************************************************************************)
(* C17: invoices_meta_list returns one InvoiceMetadata per stored invoice  *)
(* (invoicenumber, value = total, vat = tax / subtotal * 100, due_to =     *)
(* config.date + config.deadline, payed_on), ordered by ascending number,  *)
(* for every set of stored invoices, those without items included; it is   *)
(* the empty list when no invoice is stored.                               *)
(***************************************************************************)
\* The sums over the items of a file, in the units of the model.
NetOf(f) ==
    SumAt([k \in 1 .. Len(f.text.items) |->
              f.text.items[k].qty * f.text.items[k].unit_price],
          1 .. Len(f.text.items))
TaxOf(f) ==
    SumAt([k \in 1 .. Len(f.text.items) |->
              f.text.items[k].qty * f.text.items[k].unit_price
                  * f.text.items[k].vat],
          1 .. Len(f.text.items))

C17_MetaList ==
    LET res == invoices_meta_list(invoice_dir) IN
    /\ res.r.exc = ""
    /\ Len(res.value) = Cardinality(invoice_dir)
    /\ \A k \in 1 .. Len(res.value) - 1 :
          int(res.value[k].invoicenumber) < int(res.value[k + 1].invoicenumber)
    /\ \A k \in 1 .. Len(res.value) :
          \E f \in invoice_dir :
              /\ res.value[k].invoicenumber = f.text.invoicenumber
              /\ res.value[k].value = NetOf(f) * Scale + TaxOf(f)
              /\ res.value[k].vat.num * NetOf(f) = TaxOf(f) * res.value[k].vat.den
              /\ res.value[k].due_to = Date(today + deadline)
              /\ res.value[k].payed_on = None

(***************************************************************************)
(* C30: the values row of every AccountingItem has 11 entries, one for    *)
(* each of the 11 headers, so every data row of the table of a            *)
(* CashAccounting is as long as the header row.                           *)
(***************************************************************************)
C30_RowLength ==
    kind = "CashAccounting" =>
        /\ Len(AccountingItem_headers) = 11
        /\ \A k \in 1 .. Len(items) : Len(AccountingItem_values(Now[k])) = 11
        /\ \A k \in 1 .. Len(CashAccounting_table(heap, items)) :
              Len(CashAccounting_table(heap, items)[k])
                 = Len(CashAccounting_table(heap, items)[1])

(***************************************************************************)
(* C28: for every valid AccountingItem the sign of tax matches the sign   *)
(* of subtotal (tax >= 0 exactly when subtotal >= 0), so each item of a   *)
(* CashAccounting is counted in the same bucket of subtotals and of       *)
(* taxes.                                                                  *)
(***************************************************************************)
C28_SignsMatch ==
    kind = "CashAccounting" =>
        \A k \in Positions :
            /\ (tax(Now[k]) >= 0) <=> (subtotal(Now[k]) >= 0)
            /\ TaxNonNegative(Now[k]) <=> SubtotalNonNegative(Now[k])

\* C28 as the code has it: the tax of a revenue is never negative and the
\* tax of an expenditure never positive; the only items the two filters put
\* in different buckets are expenditures with vat 0, whose tax is 0, so both
\* buckets of taxes are the sums of tax over the buckets of subtotals.
C28_SignsAgree ==
    kind = "CashAccounting" =>
        /\ \A k \in Positions :
              /\ subtotal(Now[k]) >= 0 => tax(Now[k]) >= 0
              /\ subtotal(Now[k]) < 0 => tax(Now[k]) <= 0
              /\ (TaxNonNegative(Now[k]) /\ SubtotalNegative(Now[k]))
                    <=> (Now[k].value < 0 /\ Now[k].vat = 0)
              /\ ~(TaxNegative(Now[k]) /\ SubtotalNonNegative(Now[k]))
        /\ CashAccounting_taxes(heap, items)[1]
              = SumAt(Taxes(Now), {k \in Positions : Now[k].value >= 0})
        /\ CashAccounting_taxes(heap, items)[2]
              = SumAt(Taxes(Now), {k \in Positions : Now[k].value < 0})

\* A ledger that holds an expenditure free of vat next to a taxed item.
C28_Witness ==
    /\ kind = "CashAccounting"
    /\ \E k \in Positions : Now[k].value < 0 /\ Now[k].vat = 0
    /\ \E k \in Positions : Now[k].value # 0 /\ Now[k].vat > 0

(***************************************************************************)
(* C29: CashAccounting.sorted returns the same instance with its items    *)
(* ordered by ascending date; the result is a stable permutation of the   *)
(* items (the same items as often as before, items of equal date in the   *)
(* order they had), and sorting what is sorted changes nothing.           *)
(***************************************************************************)
\* The rearrangements of n positions.
Rearrangements(n) ==
    {p \in [1 .. n -> 1 .. n] : \A i, j \in 1 .. n : p[i] = p[j] => i = j}

\* out holds the items of xs, the one at p[k] at k, in an order that is
\* ascending in date and keeps the order of xs among equal dates.
StablySorted(xs, out, p) ==
    /\ \A k \in 1 .. Len(xs) : out[k] = xs[p[k]]
    /\ \A i, j \in 1 .. Len(xs) :
          i < j => \/ xs[p[i]].date < xs[p[j]].date
                   \/ xs[p[i]].date = xs[p[j]].date /\ p[i] < p[j]

C29_SortedStable ==
    kind = "CashAccounting" =>
        /\ Len(sort.items) = Len(items)
        /\ \E p \in Rearrangements(Len(items)) :
              StablySorted(Now, Contents(sort.heap, sort.items), p)
        /\ sorted_by_date(sort.heap, sort.items) = sort.items
        /\ last.op = "sorted" =>
              \A i, j \in Positions : i < j => Now[i].date <= Now[j].date

\* The sort has moved the item that was first behind a different one.
C29_Witness ==
    /\ kind = "CashAccounting"
    /\ last.op = "sorted"
    /\ Len(items) >= 2
    /\ last.pre = Now[2]
    /\ Now[1].date < Now[2].date

(***************************************************************************)
(* C26: remove(item) and delete_item(item) of an item that several        *)
(* elements equal delete exactly one element, the one at the smallest     *)
(* matching index, and keep all others in their order.                    *)
(***************************************************************************)
\* The smallest position of xs that holds x.
First(xs, x) ==
    CHOOSE k \in 1 .. Len(xs) : xs[k] = x /\ \A j \in 1 .. k - 1 : xs[j] # x

\* out is xs without its element at k.
Without(xs, k, out) ==
    /\ Len(out) = Len(xs) - 1
    /\ \A j \in 1 .. Len(out) : out[j] = xs[IF j < k THEN j ELSE j + 1]

\* The elements of the container arranged in a list of MaxLen + 1 positions.
Arrangements == [1 .. MaxLen + 1 -> {items[k] : k \in Positions}]

C26_RemovesFirst ==
    /\ \A v \in Args :
          Found(v) =>
             LET res == remove(v)
             IN /\ res.last.exc = ""
                /\ res.present = present - 1
                /\ Without(Now, First(Now, ArgContent(v)),
                           Contents(res.heap, res.items))
    /\ \A s \in Arrangements :
          LET xs == Contents(heap, s)
          IN \A k \in 1 .. Len(s) :
                LET first == First(xs, Content(heap, s[k]))
                    index == IndexOf(heap, s, s[k])
                IN /\ index = first
                   /\ Without(xs, first, Contents(heap, ListDelete(s, index - 1)))

\* An item was removed and an element equal to it is still there.
C26_Witness ==
    /\ last.op = "remove"
    /\ last.exc = ""
    /\ \E k \in Positions : Now[k] = last.pre

(***************************************************************************)
(* C25: edit_item(old, new), with new a replacement item or a field       *)
(* mapping, changes only the element at the earliest index that equals    *)
(* old: the length is unchanged and every other position holds the value  *)
(* it held before, also when several items are equal or the same object   *)
(* is at more than one position.                                          *)
(***************************************************************************)
\* The call whose outcome is res left every position but k as it was.
OnlyAt(res, k) ==
    /\ Len(res.items) = Len(items)
    /\ \A j \in Positions \ {k} : Content(res.heap, res.items[j]) = Now[j]

C25_EditsOnlyFirst ==
    kind # "TypedList" =>
        \A v \in Args : \A n \in NewItems :
            Found(v) => OnlyAt(edit(v, n), First(Now, ArgContent(v)))

(***************************************************************************)
(* C27: in every reachable state every item held by an Invoice whose      *)
(* config.vat is not the sentinel 99.99 has a vat other than the          *)
(* sentinel, the items passed to the constructor of the Invoice or to     *)
(* TIA.new_invoice and the items loaded from a file included.             *)
(***************************************************************************)
C27_NoSentinelHeld ==
    (kind = "Invoice" /\ config_vat # SENTINEL) =>
        \A k \in Positions : VatAt(heap, items, k) # SENTINEL

(***************************************************************************)
(* C21: the constructor of Company validates the bank account by the flag *)
(* validate_account_information.  When it is false the construction fails *)
(* unless both BIC and bank are supplied, and keeps the supplied values.  *)
(* When it is true the BIC and the bank name are derived from the IBAN,   *)
(* and the construction fails whenever the IBAN is invalid or the lookup  *)
(* yields no bank name, whatever BIC and bank the caller supplied.        *)
(***************************************************************************)
\* The lookup of a valid IBAN yields no bank name.
NoBankName(iban) ==
    \/ IBAN_bic(iban) = Nothing
    \/ bank_short_names(IBAN_bic(iban)[1]) = << >>

\* The bank name the lookup of a valid IBAN yields.
BankName(iban) ==
    IF NoBankName(iban) THEN Nothing
    ELSE Some(bank_short_names(IBAN_bic(iban)[1])[1])

C21_AccountValidated ==
    company.called =>
        /\ ~company.values.validate_account_information =>
              /\ (company.values.bic = Nothing \/ company.values.bank = Nothing)
                    => company.r.exc = "ValidationError"
              /\ company.r.exc = "" =>
                    /\ company.obj.bic = company.values.bic
                    /\ company.obj.bank = company.values.bank
        /\ company.values.validate_account_information =>
              /\ (IBAN(company.values.iban).exc # "" \/ NoBankName(company.values.iban))
                    => company.r.exc = "ValidationError"
              /\ company.r.exc = "" =>
                    /\ company.obj.bic = IBAN_bic(company.values.iban)
                    /\ company.obj.bank = BankName(company.values.iban)

(***************************************************************************)
(* C22: TIA.add_item, TIA.edit_item and TIA.delete_item never change      *)
(* which invoice numbers are stored nor the content of any stored invoice *)
(* other than the one that is open, after any sequence of new_invoice,    *)
(* open_invoice and delete_invoice; an invoice removed by delete_invoice  *)
(* never reappears in storage and no renumbered invoice is overwritten.   *)
(***************************************************************************)
\* The call whose outcome is res left the stored numbers and every stored
\* invoice but the one that is open as they were.
OthersKept(res) ==
    /\ StoredNumbers(res.invoice_dir) = StoredNumbers(invoice_dir)
    /\ \A f \in invoice_dir :
          (tia_invoice = None \/ f.text.invoicenumber # tia_invoice.invoicenumber)
             => f \in res.invoice_dir

C22_ItemCallsKeepOthers ==
    /\ \A item \in Items :
          /\ Len(items) < MaxLen => OthersKept(tia_add_item(item))
          /\ OthersKept(tia_delete_item(item))
    /\ \A old \in Items : \A new \in Items \cup Mappings :
          OthersKept(tia_edit_item(old, new))

(***************************************************************************)
(* C23: whenever tia.invoice is set, storage holds an invoice with the    *)
(* number tia.invoice.invoicenumber whose content equals tia.invoice;     *)
(* this holds after every new_invoice, open_invoice (of a number or of an *)
(* Invoice), add_item, edit_item, delete_item and delete_invoice.         *)
(***************************************************************************)
C23_OpenInvoiceStored ==
    (/\ tia_invoice # None
     /\ last.op \in {"TIA.new_invoice", "TIA.open_invoice", "TIA.add_item",
                     "TIA.edit_item", "TIA.delete_item", "TIA.delete_invoice"})
    => \E f \in invoice_dir :
          /\ f.text.invoicenumber = tia_invoice.invoicenumber
          /\ f.text = json(Opened(tia_invoice, heap, items))

(***************************************************************************)
(* C24: after any sequence of new_invoice, open_invoice, delete_invoice,  *)
(* add_item, edit_item and delete_item the stored invoices of a year have *)
(* pairwise distinct numbers that form the contiguous range <year>001 ..  *)
(* <year>00k, k being the number of stored invoices, and the file         *)
(* config_<n>.json always holds the invoice whose invoicenumber is n.     *)
(***************************************************************************)
C24_NumbersContiguous ==
    last.op \in {"init", "TIA.new_invoice", "TIA.open_invoice", "TIA.add_item",
                 "TIA.edit_item", "TIA.delete_item", "TIA.delete_invoice"}
    => /\ \A f, g \in invoice_dir :
             f.text.invoicenumber = g.text.invoicenumber => f = g
       /\ Contiguous(invoice_dir)
       /\ \A f \in invoice_dir : f.name = invoice_filename(f.text.invoicenumber)

====
